---- MODULE Spec2Model ----
(***************************************************************************)
(* Model of the asset browser of the editor:                               *)
(*   - AssetsBrowserMaterialMoveHandler.moveFile (files/move/material.ts)  *)
(*   - AssetsBrowserFiles navigation (setDirectory, refresh, double click, *)
(*     breadcrumbs)                                                        *)
(* Strings are sequences of one-character strings, so that path.join,      *)
(* String.replace and String.split are computed as the library computes    *)
(* them.                                                                   *)
(***************************************************************************)
EXTENDS Integers, Sequences, FiniteSets, TLC

\* ------------------------------------------------------------------------
\* Strings
\* ------------------------------------------------------------------------

SLASH == "/"

\* Index of the first occurrence of pat in s at or after position i, 0 if none.
RECURSIVE IndexFrom(_, _, _)
IndexFrom(s, pat, i) ==
    IF i + Len(pat) - 1 > Len(s) THEN 0
    ELSE IF SubSeq(s, i, i + Len(pat) - 1) = pat THEN i
    ELSE IndexFrom(s, pat, i + 1)

IndexOf(s, pat) == IndexFrom(s, pat, 1)

\* String.prototype.replace(pattern: string, replacement): first occurrence only.
Replace(s, pat, rep) ==
    LET i == IndexOf(s, pat) IN
    IF i = 0 THEN s
    ELSE SubSeq(s, 1, i - 1) \o rep \o SubSeq(s, i + Len(pat), Len(s))

\* String.prototype.split(separator) for a non-empty separator.
RECURSIVE StrSplit(_, _)
StrSplit(s, sep) ==
    LET i == IndexOf(s, sep) IN
    IF i = 0 THEN <<s>>
    ELSE <<SubSeq(s, 1, i - 1)>> \o StrSplit(SubSeq(s, i + Len(sep), Len(s)), sep)

\* Array.prototype.join(separator).
RECURSIVE ArrayJoin(_, _)
ArrayJoin(parts, sep) ==
    IF Len(parts) = 0 THEN <<>>
    ELSE IF Len(parts) = 1 THEN parts[1]
    ELSE parts[1] \o sep \o ArrayJoin(Tail(parts), sep)

\* Array.prototype.filter keeping the non-empty strings.
RECURSIVE NonEmpty(_)
NonEmpty(parts) ==
    IF Len(parts) = 0 THEN <<>>
    ELSE IF parts[1] = <<>> THEN NonEmpty(Tail(parts))
    ELSE <<parts[1]>> \o NonEmpty(Tail(parts))

\* ------------------------------------------------------------------------
\* path (posix)
\* ------------------------------------------------------------------------

DOT == <<".">>
DOTDOT == <<".", ".">>

\* path.posix normalizeString: resolves "." and ".." segments.
RECURSIVE NormalizeString(_, _, _)
NormalizeString(segs, acc, allowAboveRoot) ==
    IF Len(segs) = 0 THEN acc
    ELSE LET h == segs[1]
             t == Tail(segs)
         IN  IF h = <<>> \/ h = DOT
                 THEN NormalizeString(t, acc, allowAboveRoot)
             ELSE IF h = DOTDOT
                 THEN IF Len(acc) > 0 /\ acc[Len(acc)] # DOTDOT
                          THEN NormalizeString(t, SubSeq(acc, 1, Len(acc) - 1), allowAboveRoot)
                      ELSE IF allowAboveRoot
                          THEN NormalizeString(t, Append(acc, DOTDOT), allowAboveRoot)
                      ELSE NormalizeString(t, acc, allowAboveRoot)
             ELSE NormalizeString(t, Append(acc, h), allowAboveRoot)

\* path.posix.normalize
normalize(path) ==
    IF Len(path) = 0 THEN DOT
    ELSE LET isAbsolute == path[1] = SLASH
             trailingSeparator == path[Len(path)] = SLASH
             body == ArrayJoin(NormalizeString(StrSplit(path, <<SLASH>>), <<>>, ~isAbsolute),
                               <<SLASH>>)
             p1 == IF Len(body) = 0 /\ ~isAbsolute THEN DOT ELSE body
             p2 == IF Len(p1) > 0 /\ trailingSeparator THEN p1 \o <<SLASH>> ELSE p1
         IN  IF isAbsolute THEN <<SLASH>> \o p2 ELSE p2

\* path.posix.join(a, b)
join(a, b) ==
    LET joined == ArrayJoin(NonEmpty(<<a, b>>), <<SLASH>>) IN
    IF Len(joined) = 0 THEN DOT ELSE normalize(joined)

\* ------------------------------------------------------------------------
\* Bounds and the small world the operations run in
\* ------------------------------------------------------------------------

\* Number of materials in scene.materials.
NumMats == 2
\* Number of moveFile invocations in one behaviour.
MaxCalls == 2
\* Number of navigation operations in one behaviour of the file list.
MaxNav == 6

Undefined == <<"undefined">>

\* editor.assetsBrowser.assetsDirectory
ASSETS == <<"/", "r">>

P_a == <<"/", "r", "/", "a">>
P_b == <<"/", "r", "/", "b">>
P_da == <<"/", "r", "/", "d", "/", "a">>

\* Absolute paths of the files shown by the browser (all below ASSETS).
FilePaths == {P_a, P_b, P_da}

\* Values of metadata.editorPath found on materials.
EditorPaths == {<<>>, <<"a">>, <<"d", "/", ".", ".", "/", "a">>, <<"b">>}

\* A material of the scene: mat.metadata and mat.metadata.editorPath.
MatValues ==
    {[hasMetadata |-> FALSE, editorPath |-> Undefined],
     [hasMetadata |-> TRUE, editorPath |-> Undefined]}
    \cup {[hasMetadata |-> TRUE, editorPath |-> e] : e \in EditorPaths}

\* A file on disk. kind: "missing", "garbage" (not JSON), "null" (the JSON
\* value null) or "object"; mode: "rw", "ro" (write fails), "none" (read
\* fails); tabbed: written with tab indentation.
MissingFile ==
    [kind |-> "missing", mode |-> "rw", tabbed |-> FALSE,
     hasMetadata |-> FALSE, editorPath |-> Undefined, name |-> 0]

GarbageFile == [MissingFile EXCEPT !.kind = "garbage"]

NullFile == [MissingFile EXCEPT !.kind = "null"]

DocFile(hasMeta, ep, name, mode) ==
    [kind |-> "object", mode |-> mode, tabbed |-> FALSE,
     hasMetadata |-> hasMeta, editorPath |-> ep, name |-> name]

\* Contents the file at P_a can start with.
InitFilesA ==
    {MissingFile, GarbageFile, NullFile,
     DocFile(FALSE, Undefined, 1, "rw"),
     DocFile(TRUE, Undefined, 1, "rw"),
     DocFile(TRUE, <<"a">>, 1, "rw"),
     DocFile(TRUE, <<"a">>, 1, "ro"),
     DocFile(TRUE, <<"a">>, 1, "none")}

\* Contents the file at P_b can start with.
InitFilesB == {MissingFile, DocFile(TRUE, <<"b">>, 2, "rw")}

\* A parsed JSON value held by a call.
NoJson == [kind |-> "nothing", hasMetadata |-> FALSE, editorPath |-> Undefined, name |-> 0]

JsonOf(file) ==
    [kind |-> file.kind, hasMetadata |-> file.hasMetadata,
     editorPath |-> file.editorPath, name |-> file.name]

CallIds == 1..MaxCalls

IdleCall ==
    [pc |-> "idle", from |-> Undefined, to |-> Undefined,
     json |-> NoJson, read |-> NoJson, err |-> "none", wcall |-> Undefined,
     before |-> <<>>, overlap |-> FALSE, moved |-> FALSE]

VARIABLES
    mats,       \* editor.scene.materials
    disk,       \* the files below the assets directory
    calls,      \* the moveFile invocations and where each one stands
    snap,       \* <<mats, disk>> when the first invocation completed
    assetsDirectory,  \* AssetsBrowserFiles._assetsDirectory
    pathStack,        \* state.pathStack
    currentDirectory, \* state.currentDirectory
    items,            \* the directory whose items are in state.items
    nav,              \* the setDirectory call in flight
    navCount          \* navigation operations done so far

vars == <<mats, disk, calls, snap, assetsDirectory, pathStack, currentDirectory, items, nav, navCount>>

moveVars == <<mats, disk, calls, snap>>

browserVars == <<assetsDirectory, pathStack, currentDirectory, items, nav, navCount>>

\* ------------------------------------------------------------------------
\* AssetsBrowserMaterialMoveHandler.moveFile
\* ------------------------------------------------------------------------

\* const newEditorPath = to.replace(join(assetsDirectory, "/"), "")
NewEditorPath(to) == Replace(to, join(ASSETS, <<SLASH>>), <<>>)

\* mat.metadata?.editorPath
EditorPathOf(mat) == IF mat.hasMetadata THEN mat.editorPath ELSE Undefined

\* !editorPath
Falsy(ep) == ep = Undefined \/ ep = <<>>

\* Variant: the paths are compared by file name only.
MatchesFrom_basename(mat, from) ==
    LET editorPath == EditorPathOf(mat)
        a == StrSplit(join(ASSETS, editorPath), <<SLASH>>)
        b == StrSplit(from, <<SLASH>>)
    IN  /\ ~Falsy(editorPath)
        /\ a[Len(a)] = b[Len(b)]

\* The test of the forEach callback: editorPath set and join(...) === from.
MatchesFrom(mat, from) ==
    LET editorPath == EditorPathOf(mat) IN
    /\ ~Falsy(editorPath)
    /\ join(ASSETS, editorPath) = from

\* Variant: the callback assigns the old editorPath back.
MoveMaterial_keepsOld(mat, from, newEditorPath) == mat

\* The forEach callback.
MoveMaterial(mat, from, newEditorPath) ==
    IF MatchesFrom(mat, from)
        THEN [mat EXCEPT !.editorPath = newEditorPath]
        ELSE mat

\* Variant: only the first matching material is updated (find, not forEach).
MoveMaterials_firstOnly(ms, from, newEditorPath) ==
    [i \in DOMAIN ms |->
        IF \E k \in DOMAIN ms : k < i /\ MatchesFrom(ms[k], from)
            THEN ms[i]
            ELSE MoveMaterial(ms[i], from, newEditorPath)]

\* materials.forEach(...)
MoveMaterials(ms, from, newEditorPath) ==
    [i \in DOMAIN ms |-> MoveMaterial(ms[i], from, newEditorPath)]

\* Variant: the rewrite is not done before the first await.
SyncMaterials_deferred(ms, from, newEditorPath) == ms

\* The part of moveFile that runs before the first await.
SyncMaterials(ms, from, newEditorPath) == MoveMaterials(ms, from, newEditorPath)

\* Variant: a missing file reads as an empty document.
ReadJSON_missingAsEmpty(file) ==
    IF file.kind = "missing"
        THEN [err |-> "none", value |-> [NoJson EXCEPT !.kind = "object"]]
    ELSE IF file.mode = "none" THEN [err |-> "EACCES", value |-> NoJson]
    ELSE IF file.kind = "garbage" THEN [err |-> "SyntaxError", value |-> NoJson]
    ELSE [err |-> "none", value |-> JsonOf(file)]

\* readJSON(path): the error thrown, or the parsed value.
ReadJSON(file) ==
    IF file.kind = "missing" THEN [err |-> "ENOENT", value |-> NoJson]
    ELSE IF file.mode = "none" THEN [err |-> "EACCES", value |-> NoJson]
    ELSE IF file.kind = "garbage" THEN [err |-> "SyntaxError", value |-> NoJson]
    ELSE [err |-> "none", value |-> JsonOf(file)]

\* Variant: the document is written back without the new path.
PatchJson_noop(json, newEditorPath) == json

\* if (json.metadata) { json.metadata.editorPath = newEditorPath; }
PatchJson(json, newEditorPath) ==
    IF json.hasMetadata THEN [json EXCEPT !.editorPath = newEditorPath] ELSE json

\* Variant: the document is written to the new path.
WriteTarget_to(from, to) == to

\* The path given to writeJSON.
WriteTarget(from, to) == from

\* writeJSON(path, json, { spaces: "\t" }): the error thrown, or the new disk.
WriteJSON(d, path, json) ==
    IF d[path].kind # "missing" /\ d[path].mode # "rw"
        THEN [err |-> "EACCES", disk |-> d]
        ELSE [err |-> "none",
              disk |-> [d EXCEPT ![path] =
                            [kind |-> json.kind, mode |-> "rw", tabbed |-> TRUE,
                             hasMetadata |-> json.hasMetadata,
                             editorPath |-> json.editorPath, name |-> json.name]]]

\* Variant: the error is not caught.
OnCatch_rethrow(call, e) == [call EXCEPT !.pc = "rejected", !.err = e]

\* catch (e) { }: the promise resolves.
OnCatch(call, e) == [call EXCEPT !.pc = "resolved", !.err = e]

\* Variant: writeJSON is called only when the document has a metadata section.
AfterRead_writeInsideIf(call, value) ==
    IF value.kind = "null"
        THEN OnCatch([call EXCEPT !.read = value], "TypeError")
    ELSE IF ~value.hasMetadata
        THEN [call EXCEPT !.read = value, !.json = value, !.pc = "resolved"]
    ELSE [call EXCEPT !.read = value,
                      !.json = PatchJson(value, NewEditorPath(call.to)),
                      !.wcall = WriteTarget(call.from, call.to),
                      !.pc = "writing"]

\* The continuation after `await readJSON(from)` returned a value: patch and
\* call writeJSON (json.metadata on null throws a TypeError).
AfterRead(call, value) ==
    IF value.kind = "null"
        THEN OnCatch([call EXCEPT !.read = value], "TypeError")
        ELSE [call EXCEPT !.read = value,
                          !.json = PatchJson(value, NewEditorPath(call.to)),
                          !.wcall = WriteTarget(call.from, call.to),
                          !.pc = "writing"]

\* moveFile(from, to) is called: everything up to `await readJSON(from)`.
Start(c, from, to) ==
    /\ calls[c].pc = "idle"
    /\ \A c2 \in CallIds : c2 < c => calls[c2].pc # "idle"
    /\ mats' = SyncMaterials(mats, from, NewEditorPath(to))
    /\ calls' = [calls EXCEPT ![c] =
                    [IdleCall EXCEPT !.pc = "reading", !.from = from, !.to = to,
                         !.before = mats,
                         !.overlap = \E c2 \in CallIds :
                                         calls[c2].pc \in {"reading", "writing"}]]
    /\ UNCHANGED disk

\* readJSON(from) settles and the continuation runs up to `await writeJSON`.
ReadDone(c) ==
    /\ calls[c].pc = "reading"
    /\ LET r == ReadJSON(disk[calls[c].from]) IN
       calls' = [calls EXCEPT ![c] =
                    IF r.err # "none" THEN OnCatch(@, r.err) ELSE AfterRead(@, r.value)]
    /\ UNCHANGED <<mats, disk>>

\* writeJSON settles and moveFile returns.
WriteDone(c) ==
    /\ calls[c].pc = "writing"
    /\ LET w == WriteJSON(disk, calls[c].wcall, calls[c].json) IN
       /\ disk' = w.disk
       /\ calls' = [calls EXCEPT ![c] =
                       IF w.err # "none" THEN OnCatch(@, w.err)
                       ELSE [@ EXCEPT !.pc = "resolved"]]
    /\ UNCHANGED mats

\* The file of a started move is renamed on disk from `from` to `to`
\* (renaming a file onto itself changes nothing).
Relocate(c) ==
    /\ calls[c].pc # "idle"
    /\ calls[c].from # calls[c].to
    /\ ~calls[c].moved
    /\ disk[calls[c].from].kind # "missing"
    /\ disk' = [disk EXCEPT ![calls[c].to] = disk[calls[c].from],
                            ![calls[c].from] = MissingFile]
    /\ calls' = [calls EXCEPT ![c].moved = TRUE]
    /\ UNCHANGED mats

InitMove ==
    /\ mats \in [1..NumMats -> MatValues]
    /\ disk \in {[p \in FilePaths |->
                    IF p = P_a THEN fa ELSE IF p = P_b THEN fb ELSE MissingFile] :
                 fa \in InitFilesA, fb \in InitFilesB}
    /\ calls = [c \in CallIds |-> IdleCall]
    /\ snap = <<>>

InitBrowserOff ==
    /\ assetsDirectory = <<>>
    /\ pathStack = <<>>
    /\ currentDirectory = <<>>
    /\ items = Undefined
    /\ nav = Undefined
    /\ navCount = 0

\* One moveFile invocation, with the file being renamed at any moment.
Init == InitMove /\ InitBrowserOff

Next ==
    \/ \E from \in FilePaths, to \in FilePaths :
          Start(1, from, to) /\ UNCHANGED <<snap, browserVars>>
    \/ ReadDone(1) /\ UNCHANGED <<snap, browserVars>>
    \/ WriteDone(1) /\ UNCHANGED <<snap, browserVars>>
    \/ Relocate(1) /\ UNCHANGED <<snap, browserVars>>

Spec == Init /\ [][Next]_vars

\* moveFile(from, to) awaited, then called again with the same arguments.
SnapAfter(c) ==
    IF c = 1 /\ calls'[1].pc = "resolved" THEN <<mats', disk'>> ELSE snap

NextTwice ==
    \/ \E c \in CallIds, from \in FilePaths, to \in FilePaths :
          /\ \A c2 \in CallIds : c2 < c =>
                 /\ calls[c2].pc = "resolved"
                 /\ calls[c2].from = from
                 /\ calls[c2].to = to
          /\ Start(c, from, to)
          /\ UNCHANGED <<snap, browserVars>>
    \/ \E c \in CallIds : ReadDone(c) /\ snap' = SnapAfter(c) /\ UNCHANGED browserVars
    \/ \E c \in CallIds : WriteDone(c) /\ snap' = SnapAfter(c) /\ UNCHANGED browserVars

SpecTwice == Init /\ [][NextTwice]_vars

\* Overlapping moveFile invocations: a second move is started while the
\* first one is still waiting for the disk.
RaceMats == {[hasMetadata |-> TRUE, editorPath |-> <<"a">>],
             [hasMetadata |-> TRUE, editorPath |-> <<"d", "/", ".", ".", "/", "a">>]}

InitRace ==
    /\ mats \in [1..NumMats -> RaceMats]
    /\ disk = [p \in FilePaths |->
                 IF p = P_a THEN DocFile(TRUE, <<"a">>, 1, "rw") ELSE MissingFile]
    /\ calls = [c \in CallIds |-> IdleCall]
    /\ snap = <<>>
    /\ InitBrowserOff

NextRace ==
    \/ \E c \in CallIds, from \in FilePaths, to \in FilePaths :
          Start(c, from, to) /\ UNCHANGED <<snap, browserVars>>
    \/ \E c \in CallIds : ReadDone(c) /\ UNCHANGED <<snap, browserVars>>
    \/ \E c \in CallIds : WriteDone(c) /\ UNCHANGED <<snap, browserVars>>
    \/ \E c \in CallIds : Relocate(c) /\ UNCHANGED <<snap, browserVars>>

SpecRace == InitRace /\ [][NextRace]_vars

\* ------------------------------------------------------------------------
\* AssetsBrowserFiles: the file list and its breadcrumbs
\* ------------------------------------------------------------------------

D_d == <<"/", "r", "/", "d">>
D_de == <<"/", "r", "/", "d", "/", "e">>
D_f == <<"/", "r", "/", "f">>
D_fg == <<"/", "r", "/", "f", "/", "g">>

\* The directories that exist below the assets directory.
Dirs == {ASSETS, D_d, D_de, D_f, D_fg}

\* Names of the folders inside the assets directory tree.
DirNames == {<<"d">>, <<"e">>, <<"f">>, <<"g">>}

\* The directory items AssetsBrowserItem shows for a listed directory.
Children(dir) == {f \in DirNames : join(dir, f) \in Dirs}

\* `directoryPath.split(this._assetsDirectory)[1]`, undefined when absent.
SplitAfterAssets(directoryPath, assets) ==
    LET parts == StrSplit(directoryPath, assets) IN
    IF Len(parts) >= 2 THEN parts[2] ELSE Undefined

\* The "Refresh path stack" block of setDirectory.
RefreshedPathStack(stack, directoryPath, assets) ==
    LET split == SplitAfterAssets(directoryPath, assets) IN
    IF Falsy(split) THEN stack
    ELSE <<assets>> \o NonEmpty(StrSplit(split, <<SLASH>>))

\* onClick of breadcrumb i: setDirectory(itemStack.join("/")).
BreadcrumbTarget(stack, i) == ArrayJoin(SubSeq(stack, 1, i), <<SLASH>>)

\* setDirectory(directoryPath) up to `await readdir(directoryPath)`.
SetDirectoryBegin(directoryPath, stack, current) ==
    /\ IF Falsy(assetsDirectory)
          THEN /\ assetsDirectory' = directoryPath
               /\ pathStack' = <<directoryPath>>
               /\ currentDirectory' = directoryPath
          ELSE /\ assetsDirectory' = assetsDirectory
               /\ pathStack' = stack
               /\ currentDirectory' = current
    /\ nav' = directoryPath
    /\ navCount' = navCount + 1
    /\ UNCHANGED items

\* The editor shows the assets directory: setDirectory(assetsDirectory).
OpenAssets ==
    /\ nav = Undefined
    /\ navCount < MaxNav
    /\ Falsy(assetsDirectory)
    /\ SetDirectoryBegin(ASSETS, pathStack, currentDirectory)

\* refresh(): setDirectory(this.state.currentDirectory).
Refresh ==
    /\ nav = Undefined
    /\ navCount < MaxNav
    /\ SetDirectoryBegin(currentDirectory, pathStack, currentDirectory)

\* _handleItemDoubleClicked(directoryPath, file, stats) on a directory item.
HandleItemDoubleClicked(file) ==
    /\ nav = Undefined
    /\ navCount < MaxNav
    /\ items # Undefined
    /\ file \in Children(items)
    /\ SetDirectoryBegin(join(items, file), pathStack \o <<file>>, join(items, file))

\* Click on breadcrumb i.
BreadcrumbClick(i) ==
    /\ nav = Undefined
    /\ navCount < MaxNav
    /\ i \in 1..Len(pathStack)
    /\ SetDirectoryBegin(BreadcrumbTarget(pathStack, i), pathStack, currentDirectory)

\* setDirectory after readdir: rejects if the directory cannot be read, else
\* refreshes the path stack and sets the items.
SetDirectoryEnd ==
    /\ nav # Undefined
    /\ IF nav \in Dirs
          THEN /\ pathStack' = RefreshedPathStack(pathStack, nav, assetsDirectory)
               /\ items' = nav
          ELSE UNCHANGED <<pathStack, items>>
    /\ nav' = Undefined
    /\ UNCHANGED <<assetsDirectory, currentDirectory, navCount>>

InitBrowser ==
    /\ mats = [i \in 1..NumMats |-> [hasMetadata |-> FALSE, editorPath |-> Undefined]]
    /\ disk = [p \in FilePaths |-> MissingFile]
    /\ calls = [c \in CallIds |-> IdleCall]
    /\ snap = <<>>
    /\ InitBrowserOff

NextBrowser ==
    \/ OpenAssets /\ UNCHANGED moveVars
    \/ Refresh /\ UNCHANGED moveVars
    \/ \E file \in DirNames : HandleItemDoubleClicked(file) /\ UNCHANGED moveVars
    \/ \E i \in 1..(MaxNav + 1) : BreadcrumbClick(i) /\ UNCHANGED moveVars
    \/ SetDirectoryEnd /\ UNCHANGED moveVars

SpecBrowser == InitBrowser /\ [][NextBrowser]_vars

\* ------------------------------------------------------------------------
\* Properties
\* ------------------------------------------------------------------------

\* The path of p relative to the assets directory, for p below it.
RelativeToAssets(p) ==
    LET segs == NonEmpty(StrSplit(p, <<SLASH>>))
        root == NonEmpty(StrSplit(ASSETS, <<SLASH>>))
    IN  ArrayJoin(SubSeq(segs, Len(root) + 1, Len(segs)), <<SLASH>>)

\* The material's editorPath, joined onto the assets directory, equals from.
RefersTo(mat, from) ==
    /\ mat.hasMetadata
    /\ mat.editorPath # Undefined
    /\ join(ASSETS, mat.editorPath) = from

\* Every material that referred to the call's `from` when the call was made
\* now carries the relative path of the call's `to`.
Rewritten(c) ==
    \A i \in DOMAIN calls[c].before :
        RefersTo(calls[c].before[i], calls[c].from) =>
            /\ mats[i].hasMetadata
            /\ mats[i].editorPath = RelativeToAssets(calls[c].to)

\* C1: after moveFile(from, to) every material whose editorPath resolved to
\* `from` before the call has editorPath equal to the path of `to` relative
\* to the assets directory, for all matching materials.
Thm_C1 ==
    \A c \in CallIds : calls[c].pc = "resolved" => Rewritten(c)

Wit_C1 ==
    \E c \in CallIds :
        /\ calls[c].pc = "resolved"
        /\ calls[c].from = P_a
        /\ calls[c].to = P_da
        /\ calls[c].before[1].editorPath = <<"a">>
        /\ calls[c].before[2].editorPath = <<"d", "/", ".", ".", "/", "a">>
        /\ mats[1].editorPath = <<"d", "/", "a">>
        /\ mats[2].editorPath = <<"d", "/", "a">>

\* C2: moveFile leaves unchanged every material without metadata, without
\* editorPath (or an empty one) or whose editorPath resolves elsewhere; the
\* collection keeps its members and order, and no error is raised.
Thm_C2 ==
    \A c \in CallIds :
        calls[c].pc # "idle" =>
            /\ calls[c].pc # "rejected"
            /\ DOMAIN mats = DOMAIN calls[c].before
            /\ \A i \in DOMAIN mats :
                   ~RefersTo(calls[c].before[i], calls[c].from) =>
                       mats[i] = calls[c].before[i]

Wit_C2 ==
    \E c \in CallIds :
        /\ calls[c].pc = "resolved"
        /\ calls[c].from = P_a
        /\ calls[c].before[1].editorPath = <<"a">>
        /\ mats[1].editorPath = RelativeToAssets(calls[c].to)
        /\ calls[c].before[2].editorPath = <<"b">>
        /\ mats[2] = calls[c].before[2]

\* C3: a failure of the disk patch (missing file, unparsable content, read or
\* write error) is swallowed: the promise resolves, never rejects, and the
\* in-memory rewrite stays applied.
Thm_C3 ==
    \A c \in CallIds :
        /\ calls[c].pc # "rejected"
        /\ calls[c].err # "none" => calls[c].pc = "resolved" /\ Rewritten(c)

Wit_C3 ==
    \E c \in CallIds :
        /\ calls[c].pc = "resolved"
        /\ calls[c].err = "EACCES"
        /\ calls[c].read.kind = "object"
        /\ \E i \in DOMAIN mats :
               /\ RefersTo(calls[c].before[i], calls[c].from)
               /\ mats[i].editorPath = RelativeToAssets(calls[c].to)

\* C4 as stated: if the document read from `from` has no metadata section,
\* moveFile makes no writeJSON call at all.
Orig_C4 ==
    \A c \in CallIds :
        calls[c].read.kind = "object" /\ ~calls[c].read.hasMetadata =>
            calls[c].wcall = Undefined

\* C4 amended: if the document read from `from` has no metadata section,
\* moveFile still calls writeJSON on `from`, with the document exactly as read
\* (no metadata section is added); when the write succeeds the file at `from`
\* holds that document, re-indented with tabs, and the call resolves.
Thm_C4 ==
    [][\A c \in CallIds :
          calls'[c].read.kind = "object" /\ ~calls'[c].read.hasMetadata =>
              /\ calls'[c].wcall = calls'[c].from
              /\ calls'[c].json = calls'[c].read
              /\ calls'[c].pc \in {"writing", "resolved"}
              /\ (calls[c].pc = "writing" /\ calls'[c].pc = "resolved"
                      /\ calls'[c].err = "none") =>
                     /\ JsonOf(disk'[calls[c].from]) = calls[c].read
                     /\ disk'[calls[c].from].tabbed]_vars

Wit_C4 ==
    \E c \in CallIds :
        /\ calls[c].pc = "resolved"
        /\ calls[c].err = "none"
        /\ calls[c].read.kind = "object"
        /\ ~calls[c].read.hasMetadata
        /\ calls[c].wcall = calls[c].from
        /\ disk[calls[c].from].tabbed
        /\ ~disk[calls[c].from].hasMetadata

\* C5 as stated: running moveFile(from, to) to completion twice in sequence
\* leaves the materials and the disk as running it once did, and the second
\* call finds no material referring to `from`, for every (from, to).
Orig_C5 ==
    \A c \in CallIds :
        c > 1 /\ calls[c].pc = "resolved" =>
            /\ <<mats, disk>> = snap
            /\ \A i \in DOMAIN calls[c].before :
                   ~RefersTo(calls[c].before[i], calls[c].from)

\* C5 amended: running moveFile(from, to) twice in sequence leaves the
\* materials and the disk as running it once did, for every (from, to); the
\* second call finds no material referring to `from` when to differs from
\* from.
Thm_C5 ==
    \A c \in CallIds :
        c > 1 /\ calls[c].pc = "resolved" =>
            /\ <<mats, disk>> = snap
            /\ calls[c].to # calls[c].from =>
                   \A i \in DOMAIN calls[c].before :
                       ~RefersTo(calls[c].before[i], calls[c].from)

Wit_C5 ==
    /\ calls[2].pc = "resolved"
    /\ calls[2].err = "none"
    /\ calls[2].to # calls[2].from
    /\ \E i \in DOMAIN mats : RefersTo(calls[1].before[i], calls[1].from)
    /\ disk[calls[2].from].hasMetadata
    /\ disk[calls[2].from].editorPath = RelativeToAssets(calls[2].to)

\* C6: within one call the rewrite of all matching materials is done in the
\* step that starts the call, before the read of `from` is started, and no
\* later step of that call modifies a material.
Thm_C6 ==
    [][\A c \in CallIds :
          /\ (calls[c].pc = "idle" /\ calls'[c].pc # "idle") =>
                 /\ calls'[c].pc = "reading"
                 /\ calls'[c].read = NoJson
                 /\ \A i \in DOMAIN mats :
                        RefersTo(mats[i], calls'[c].from) =>
                            mats'[i].editorPath = RelativeToAssets(calls'[c].to)
          /\ (calls[c].pc \in {"reading", "writing"} /\ calls'[c] # calls[c]) =>
                 mats' = mats]_vars

Wit_C6 ==
    \E c \in CallIds :
        /\ calls[c].pc = "writing"
        /\ calls[c].overlap
        /\ \E i \in DOMAIN mats :
               /\ RefersTo(calls[c].before[i], calls[c].from)
               /\ mats[i].editorPath = RelativeToAssets(calls[c].to)

\* Calls c and c + 1 move the same `from` to different targets, and nothing
\* else (no other call, no rename of the file) has happened.
SameFromPair(c) ==
    /\ c + 1 \in CallIds
    /\ calls[c + 1].pc # "idle"
    /\ calls[c].from = calls[c + 1].from
    /\ calls[c].to # calls[c + 1].to
    /\ \A o \in CallIds : o \notin {c, c + 1} => calls[o].pc = "idle"
    /\ ~calls[c].moved /\ ~calls[c + 1].moved

\* C7 as stated: of two moveFile calls for the same `from` with different
\* targets, the materials end with the path of the call started first.
Orig_C7 ==
    \A c \in CallIds : SameFromPair(c) => Rewritten(c)

\* C7 amended: two moveFile calls for the same `from` with different targets
\* are not serialized. The document at `from` ends with the path of either
\* call, whichever write lands last; the materials end with the path of the
\* call started first (the second finds nothing left to rewrite) provided
\* the first call's target is not `from` itself.
Thm_C7 ==
    \A c \in CallIds :
        SameFromPair(c) =>
            /\ calls[c].to # calls[c].from =>
                   /\ Rewritten(c)
                   /\ \A i \in DOMAIN mats :
                          ~RefersTo(calls[c + 1].before[i], calls[c].from)
            /\ (/\ calls[c].pc = "resolved" /\ calls[c + 1].pc = "resolved"
                /\ calls[c].err = "none" /\ calls[c + 1].err = "none"
                /\ calls[c].read.hasMetadata /\ calls[c + 1].read.hasMetadata) =>
                   disk[calls[c].from].editorPath \in
                       {RelativeToAssets(calls[c].to), RelativeToAssets(calls[c + 1].to)}

\* The second call overlapped the first, its write landed last, and the
\* document disagrees with the materials.
Wit_C7 ==
    \E c \in CallIds :
        /\ SameFromPair(c)
        /\ calls[c].to # calls[c].from
        /\ calls[c + 1].overlap
        /\ calls[c].pc = "resolved" /\ calls[c + 1].pc = "resolved"
        /\ disk[calls[c].from].editorPath = RelativeToAssets(calls[c + 1].to)
        /\ \E i \in DOMAIN mats :
               /\ RefersTo(calls[c].before[i], calls[c].from)
               /\ mats[i].editorPath = RelativeToAssets(calls[c].to)
               /\ mats[i].editorPath # disk[calls[c].from].editorPath

\* The second call started later, yet the write of the first landed last.
Reach_C7_firstWritesLast ==
    \E c \in CallIds :
        /\ SameFromPair(c)
        /\ calls[c].pc = "resolved" /\ calls[c + 1].pc = "resolved"
        /\ calls[c].err = "none" /\ calls[c + 1].err = "none"
        /\ calls[c + 1].read.hasMetadata
        /\ calls[c].to # calls[c].from
        /\ disk[calls[c].from].editorPath = RelativeToAssets(calls[c].to)

\* C8: when the document at `from` is read with a metadata section and the
\* write succeeds, the file at `from` then has metadata.editorPath equal to
\* the relative path of `to` and its other fields as read; no step of
\* moveFile changes a file at any other path.
Thm_C8 ==
    [][\A c \in CallIds :
          /\ (/\ calls[c].pc = "writing" /\ calls'[c].pc = "resolved"
              /\ calls'[c].err = "none" /\ calls[c].read.hasMetadata) =>
                 /\ disk'[calls[c].from].kind = "object"
                 /\ disk'[calls[c].from].hasMetadata
                 /\ disk'[calls[c].from].editorPath = RelativeToAssets(calls[c].to)
                 /\ disk'[calls[c].from].name = calls[c].read.name
          /\ calls'[c].pc # calls[c].pc =>
                 \A p \in FilePaths : p # calls'[c].from => disk'[p] = disk[p]]_vars

Wit_C8 ==
    \E c \in CallIds :
        /\ calls[c].pc = "resolved"
        /\ calls[c].err = "none"
        /\ calls[c].read.hasMetadata
        /\ calls[c].read.editorPath = <<"a">>
        /\ ~calls[c].moved
        /\ disk[calls[c].from].editorPath = RelativeToAssets(calls[c].to)
        /\ disk[calls[c].from].editorPath # <<"a">>
        /\ disk[calls[c].to].kind = "missing"

\* C9: if the file was renamed from `from` to `to` before the read, the read
\* fails, nothing is written (no file appears at `from`), the document at
\* `to` keeps its old editorPath and the call resolves, while the materials
\* already carry the new path.
Thm_C9 ==
    [][\A c \in CallIds :
          (calls[c].pc = "reading" /\ calls[c].moved /\ calls'[c].pc # "reading") =>
              /\ calls'[c].pc = "resolved"
              /\ calls'[c].err = "ENOENT"
              /\ calls'[c].wcall = Undefined
              /\ disk' = disk
              /\ disk'[calls[c].from].kind = "missing"
              /\ mats' = mats]_vars

Wit_C9 ==
    \E c \in CallIds :
        /\ calls[c].pc = "resolved"
        /\ calls[c].moved
        /\ calls[c].err = "ENOENT"
        /\ disk[calls[c].from].kind = "missing"
        /\ disk[calls[c].to].hasMetadata
        /\ disk[calls[c].to].editorPath # RelativeToAssets(calls[c].to)
        /\ \E i \in DOMAIN mats :
               /\ RefersTo(calls[c].before[i], calls[c].from)
               /\ mats[i].editorPath = RelativeToAssets(calls[c].to)

\* C10: after completed navigation operations, pathStack is the stack of
\* folders of the directory whose items are displayed (its first entry the
\* assets directory, joined with "/" the directory last listed) and
\* currentDirectory, which refresh() lists again, is that directory.
Orig_C10 ==
    (nav = Undefined /\ items # Undefined) =>
        /\ pathStack[1] = ASSETS
        /\ ArrayJoin(pathStack, <<SLASH>>) = items
        /\ currentDirectory = items

====
